---- MODULE Spec2Model ----
(***************************************************************************)
(* Model of the conversion log analyzer: the line classifier and file      *)
(* scanner (conversion_log_analyzer/parser.py), the aggregator             *)
(* (conversion_log_analyzer/analyzer.py), the command-line run             *)
(* (conversion_log_analyzer/cli.py), the report writers                    *)
(* (conversion_log_analyzer/reporter.py) and the analysis run of the       *)
(* window (conversion_log_analyzer/gui.py).                                *)
(*                                                                         *)
(* Text is modelled at character level: a Python str is a sequence of      *)
(* one-character strings, so that the regular expressions of the parser    *)
(* are computed position by position as the re module computes them.       *)
(***************************************************************************)
EXTENDS Integers, Sequences, FiniteSets, TLC

VARIABLES
    \* ---- classifier run (LogParser._parse_line applied to one line)
    line,             \* the input line, a sequence of characters
    parsed,           \* <<>> before the call, <<result>> after it
    \* ---- LogAnalyzer object
    total_entries,    \* self.total_entries
    level_counts,     \* self.level_counts   : defaultdict(int), a function on its keys
    step_counts,      \* self.step_counts    : defaultdict of defaultdict(int)
    entries_by_level, \* self.entries_by_level : defaultdict(list)
    entries_by_step,  \* self.entries_by_step  : defaultdict(list)
    step_keys,        \* insertion order of the keys of self.step_counts
    \* ---- what the callers of the LogAnalyzer have seen
    added,            \* the add_entry calls made since construction/reset, in order
    summary,          \* <<>> or <<the value the last get_summary returned>>
    fresh,            \* TRUE iff no add_entry/reset ran since that get_summary
    returned,         \* <<>> or <<[op, key, value, shared]>> of the last get_entries_by_* call
    \* ---- file system and scanner/CLI control state
    log_files,        \* the files handed to the run, in order, each with the
                      \* lines read from it so far and the state of its scan
    pc,               \* position of the running procedure
    file_idx,         \* index in log_files of the file being scanned
    line_number,      \* parse_file's local line_number
    args,             \* the parsed command line: format and detailed
    yielded,          \* what parse_multiple_files has yielded so far
    reports,          \* report files written by the run, in order
    exit_code,        \* <<>> while running, <<status>> once the process ended
    input_path,       \* what the file system holds at the input path
    out_dir_created,  \* TRUE once os.makedirs of a reporter went through
    raised,           \* <<>> or <<the report call whose exception left main>>
    printed,          \* the error and end-of-run messages printed, in order
    \* ---- report writers
    now,              \* the clock, in ticks
    out_files,        \* the files of the output directory: path -> content
    calls,            \* the report-generation calls made, in order
    \* ---- window
    analyze_btn,      \* state of self.analyze_btn: "normal" or "disabled"
    progress,         \* the progress bar: "stopped" or "running"
    workers,          \* the threads started by analyze_logs, in order
    after_queue       \* callbacks handed to root.after, not yet run

vars == << line, parsed,
           total_entries, level_counts, step_counts, entries_by_level,
           entries_by_step, step_keys, added, summary, fresh, returned,
           log_files, pc, file_idx, line_number, args,
           yielded, reports, exit_code,
           input_path, out_dir_created, raised, printed,
           now, out_files, calls,
           analyze_btn, progress, workers, after_queue >>

cls_vars == << line, parsed >>
an_vars  == << total_entries, level_counts, step_counts, entries_by_level,
               entries_by_step, step_keys >>
obs_vars == << added, summary, fresh, returned >>
run_vars == << log_files, pc, file_idx, line_number, args,
               yielded, reports, exit_code,
               input_path, out_dir_created, raised, printed >>
io_vars  == << input_path, out_dir_created, raised >>
rep_vars == << now, out_files, calls >>
gui_vars == << analyze_btn, progress, workers, after_queue >>

(***************************************************************************)
(* Characters and strings                                                  *)
(***************************************************************************)

\* Python None where a str is expected (LogEntry.step, filename).
None == << "<None>" >>

UpperCase == { "A", "B", "C", "D", "E", "F", "G", "I", "L", "N", "O", "P", "R",
               "S", "T", "W", "X", "Y" }
LowerCase == { "a", "b", "c", "d", "e", "f", "g", "i", "l", "n", "o", "p", "r",
               "s", "t", "w", "x", "y" }
Digits == { "0", "1" }

\* re.IGNORECASE compares characters by their case-folded form.
Fold(c) ==
    CASE c = "a" -> "A" [] c = "c" -> "C" [] c = "e" -> "E" [] c = "f" -> "F"
      [] c = "g" -> "G" [] c = "b" -> "B" [] c = "d" -> "D"
      [] c = "i" -> "I" [] c = "l" -> "L" [] c = "n" -> "N" [] c = "o" -> "O"
      [] c = "p" -> "P" [] c = "r" -> "R" [] c = "s" -> "S" [] c = "t" -> "T"
      [] c = "w" -> "W" [] c = "x" -> "X" [] c = "y" -> "Y"
      [] OTHER -> c

\* \w of the re module: letters, digits and the underscore.
IsWordChar(c) == c \in UpperCase \cup LowerCase \cup Digits \cup { "_" }

\* str.strip() with no argument removes these.
IsSpace(c) == c \in { " ", "\t", "\n", "\r" }

\* The literal texts of the patterns (parser.py:29-34).
KW_ERROR    == << "E", "R", "R", "O", "R" >>
KW_WARNING  == << "W", "A", "R", "N", "I", "N", "G" >>
KW_CRITICAL == << "C", "R", "I", "T", "I", "C", "A", "L" >>
STEP_PREFIX == << "[", "S", "T", "E", "P", ":" >>

(***************************************************************************)
(* Regular expressions of LogParser                                        *)
(***************************************************************************)

\* \b at the gap in front of s[p] (p in 1..Len(s)+1): exactly one of the two
\* neighbouring positions holds a word character; outside the string counts
\* as a non-word character.
WordBoundary(s, p) ==
    (p > 1 /\ IsWordChar(s[p - 1])) # (p <= Len(s) /\ IsWordChar(s[p]))

\* The literal lit matches s at position i, ignoring case.
LiteralAt(s, lit, i) ==
    /\ i + Len(lit) - 1 <= Len(s)
    /\ \A k \in 1 .. Len(lit) : Fold(s[i + k - 1]) = Fold(lit[k])

\* pattern.search(s) for a pattern \bLIT\b compiled with re.IGNORECASE.
WordSearch(s, lit) ==
    \E i \in 1 .. Len(s) :
        /\ WordBoundary(s, i)
        /\ LiteralAt(s, lit, i)
        /\ WordBoundary(s, i + Len(lit))

\* The same search without the two \b anchors (a plain substring search).
SubstringSearch(s, lit) == \E i \in 1 .. Len(s) : LiteralAt(s, lit, i)

ERROR_PATTERN_unanchored(s) == SubstringSearch(s, KW_ERROR)

ERROR_PATTERN(s) == WordSearch(s, KW_ERROR)

WARNING_PATTERN(s) == WordSearch(s, KW_WARNING)

CRITICAL_PATTERN(s) == WordSearch(s, KW_CRITICAL)

\* \[STEP:([^\]]+)\] matches at i: the prefix, at least one character other
\* than "]", and a closing "]" somewhere after it.
StepMatchAt(s, i) ==
    /\ LiteralAt(s, STEP_PREFIX, i)
    /\ i + Len(STEP_PREFIX) <= Len(s)
    /\ s[i + Len(STEP_PREFIX)] # "]"
    /\ \E j \in i + Len(STEP_PREFIX) + 1 .. Len(s) : s[j] = "]"

\* STEP_PATTERN.search(s): <<>> when nothing matches, else <<group(1)>> of the
\* leftmost match; [^\]]+ runs up to the first "]" after the prefix.
STEP_PATTERN(s) ==
    LET starts == { i \in 1 .. Len(s) : StepMatchAt(s, i) }
    IN  IF starts = {} THEN << >>
        ELSE LET i == CHOOSE a \in starts : \A b \in starts : a <= b
                 from == i + Len(STEP_PREFIX)
                 close == CHOOSE j \in from + 1 .. Len(s) :
                              /\ s[j] = "]"
                              /\ \A k \in from .. j - 1 : s[k] # "]"
             IN  << SubSeq(s, from, close - 1) >>

\* str.strip(): drops leading and trailing whitespace.
Strip(s) ==
    LET keep == { i \in 1 .. Len(s) : ~IsSpace(s[i]) }
    IN  IF keep = {} THEN << >>
        ELSE SubSeq(s, CHOOSE a \in keep : \A b \in keep : a <= b,
                       CHOOSE a \in keep : \A b \in keep : a >= b)

(***************************************************************************)
(* LogParser._parse_line                                                   *)
(***************************************************************************)

\* The if/elif chain of _parse_line with ERROR tested before CRITICAL.
LineLevel_errorFirst(s) ==
    IF ERROR_PATTERN(s) THEN << "ERROR" >>
    ELSE IF CRITICAL_PATTERN(s) THEN << "CRITICAL" >>
    ELSE IF WARNING_PATTERN(s) THEN << "WARNING" >>
    ELSE << >>

\* The if/elif chain of _parse_line: <<>> stands for level = None.
LineLevel(s) ==
    IF CRITICAL_PATTERN(s) THEN << "CRITICAL" >>
    ELSE IF ERROR_PATTERN(s) THEN << "ERROR" >>
    ELSE IF WARNING_PATTERN(s) THEN << "WARNING" >>
    ELSE << >>

\* The step taken as group(1) stands, blanks included.
LineStep_untrimmed(s) ==
    LET m == STEP_PATTERN(s)
    IN  IF m = << >> THEN None ELSE m[1]

\* step = None unless STEP_PATTERN matches, then group(1).strip().
LineStep(s) ==
    LET m == STEP_PATTERN(s)
    IN  IF m = << >> THEN None ELSE Strip(m[1])

\* _parse_line without the elif branch of WARNING_PATTERN.
_parse_line_noWarning(s, n) ==
    IF LineLevel(s) \in { << >>, << "WARNING" >> } THEN << >>
    ELSE << [ line_number |-> n,
              message     |-> Strip(s),
              level       |-> LineLevel(s)[1],
              step        |-> LineStep(s) ] >>

\* Optional[LogEntry] as a sequence of zero or one LogEntry.
_parse_line(s, n) ==
    IF LineLevel(s) = << >> THEN << >>
    ELSE << [ line_number |-> n,
              message     |-> Strip(s),
              level       |-> LineLevel(s)[1],
              step        |-> LineStep(s) ] >>

(***************************************************************************)
(* Values the variables of an idle component hold                          *)
(***************************************************************************)

\* defaultdict with no key yet: the function with the empty domain.
EmptyDict == [ k \in {} |-> 0 ]

ClsIdle ==
    /\ line = << >>
    /\ parsed = << >>

\* LogAnalyzer.reset(): every counter and bucket back to empty.
ResetState ==
    [ total_entries    |-> 0,
      level_counts     |-> EmptyDict,
      step_counts      |-> EmptyDict,
      entries_by_level |-> EmptyDict,
      entries_by_step  |-> EmptyDict,
      step_keys        |-> << >> ]

AnalyzerIs(st) ==
    /\ total_entries = st.total_entries
    /\ level_counts = st.level_counts
    /\ step_counts = st.step_counts
    /\ entries_by_level = st.entries_by_level
    /\ entries_by_step = st.entries_by_step
    /\ step_keys = st.step_keys

AnalyzerBecomes(st) ==
    /\ total_entries' = st.total_entries
    /\ level_counts' = st.level_counts
    /\ step_counts' = st.step_counts
    /\ entries_by_level' = st.entries_by_level
    /\ entries_by_step' = st.entries_by_step
    /\ step_keys' = st.step_keys

\* The LogAnalyzer as one value.
AnalyzerState ==
    [ total_entries    |-> total_entries,
      level_counts     |-> level_counts,
      step_counts      |-> step_counts,
      entries_by_level |-> entries_by_level,
      entries_by_step  |-> entries_by_step,
      step_keys        |-> step_keys ]

ObsIdle ==
    /\ added = << >>
    /\ summary = << >>
    /\ fresh = FALSE
    /\ returned = << >>

RunIdle ==
    /\ log_files = << >>
    /\ pc = "idle"
    /\ file_idx = 0
    /\ line_number = 0
    /\ args = [ format |-> "both", detailed |-> FALSE ]
    /\ yielded = << >>
    /\ reports = << >>
    /\ exit_code = << >>
    /\ input_path = [ kind |-> "missing", path |-> << >>, entries |-> << >> ]
    /\ out_dir_created = FALSE
    /\ raised = << >>
    /\ printed = << >>

RepIdle ==
    /\ now = 0
    /\ out_files = EmptyDict
    /\ calls = << >>

GuiIdle ==
    /\ analyze_btn = "normal"
    /\ progress = "stopped"
    /\ workers = << >>
    /\ after_queue = << >>

(***************************************************************************)
(* Specification SpecClassify: _parse_line applied to one bounded line     *)
(***************************************************************************)

\* Longest line, in pieces.
MaxPieces == 4

\* The pieces lines are built from: the three markers, one of them in lower
\* case, a separator and a non-letter word character.
Pieces ==
    { KW_CRITICAL, KW_ERROR, KW_WARNING,
      << "e", "r", "r", "o", "r" >>, << " " >>, << "_" >> }

RECURSIVE LinesOf(_)
LinesOf(n) ==
    IF n = 0 THEN { << >> }
    ELSE LET shorter == LinesOf(n - 1)
         IN  shorter \cup { l \o p : l \in shorter, p \in Pieces }

SampleLineNumbers == { 1, 7 }

InitClassify ==
    /\ line \in LinesOf(MaxPieces)
    /\ parsed = << >>
    /\ AnalyzerIs(ResetState)
    /\ ObsIdle
    /\ RunIdle
    /\ RepIdle
    /\ GuiIdle

\* entry = self._parse_line(line, line_number)
ParseLine ==
    /\ parsed = << >>
    /\ \E n \in SampleLineNumbers : parsed' = << _parse_line(line, n) >>
    /\ UNCHANGED << line, an_vars, obs_vars, run_vars, rep_vars, gui_vars >>

NextClassify == ParseLine

SpecClassify == InitClassify /\ [][NextClassify]_vars

(***************************************************************************)
(* Claims about the classifier                                             *)
(***************************************************************************)

\* s holds the keyword kw as a whole word: one of its maximal runs of word
\* characters is, ignoring case, exactly kw.
HasWholeWord(s, kw) ==
    \E a \in 1 .. Len(s) :
        LET b == a + Len(kw) - 1
        IN  /\ b <= Len(s)
            /\ \A k \in a .. b : IsWordChar(s[k])
            /\ a = 1 \/ ~IsWordChar(s[a - 1])
            /\ b = Len(s) \/ ~IsWordChar(s[b + 1])
            /\ \A k \in 1 .. Len(kw) : Fold(s[a + k - 1]) = kw[k]

\* The level the priority rule CRITICAL > ERROR > WARNING assigns to s.
PriorityLevel(s) ==
    IF HasWholeWord(s, KW_CRITICAL) THEN << "CRITICAL" >>
    ELSE IF HasWholeWord(s, KW_ERROR) THEN << "ERROR" >>
    ELSE IF HasWholeWord(s, KW_WARNING) THEN << "WARNING" >>
    ELSE << >>

\* C3: _parse_line yields at most one record for a line, none when the line
\* holds no marker as a whole word, and otherwise one whose level is the
\* highest-priority marker present (CRITICAL > ERROR > WARNING).
C3_PriorityClassification ==
    parsed # << >> =>
        LET r == parsed[1]
        IN  /\ Len(r) <= 1
            /\ (PriorityLevel(line) = << >>) <=> (r = << >>)
            /\ r # << >> => r[1].level = PriorityLevel(line)[1]

\* A classified line holding CRITICAL and ERROR as whole words.
C3_Witness ==
    /\ parsed # << >>
    /\ HasWholeWord(line, KW_CRITICAL)
    /\ HasWholeWord(line, KW_ERROR)
    /\ parsed[1] # << >>
    /\ parsed[1][1].level = "CRITICAL"

\* Every occurrence of the literal kw in s touches another word character.
OnlyEmbedded(s, kw) ==
    \A i \in 1 .. Len(s) :
        LiteralAt(s, kw, i) =>
            \/ i > 1 /\ IsWordChar(s[i - 1])
            \/ i + Len(kw) <= Len(s) /\ IsWordChar(s[i + Len(kw)])

\* C4: a line in which every occurrence of CRITICAL, ERROR and WARNING is
\* part of a longer word token yields no record.
C4_EmbeddedKeywordNoMatch ==
    ( /\ parsed # << >>
      /\ OnlyEmbedded(line, KW_CRITICAL)
      /\ OnlyEmbedded(line, KW_ERROR)
      /\ OnlyEmbedded(line, KW_WARNING) )
    => parsed[1] = << >>

\* A classified line that holds ERROR, but only inside a longer word.
C4_Witness ==
    /\ parsed # << >>
    /\ SubstringSearch(line, KW_ERROR)
    /\ OnlyEmbedded(line, KW_CRITICAL)
    /\ OnlyEmbedded(line, KW_ERROR)
    /\ OnlyEmbedded(line, KW_WARNING)
    /\ parsed[1] = << >>

(***************************************************************************)
(* LogAnalyzer (analyzer.py)                                               *)
(***************************************************************************)

\* d.get(k, default): reads without creating the key.
DictGet(d, k, default) == IF k \in DOMAIN d THEN d[k] ELSE default

\* d[k] = v
DictPut(d, k, v) == [ x \in DOMAIN d \cup { k } |-> IF x = k THEN v ELSE d[x] ]

\* Python truthiness of an Optional[str]: None and '' are false.
Truthy(str) == str # None /\ str # << >>

\* entry_data of add_entry: the record annotated with the filename.
EntryData(entry, filename) ==
    [ line_number |-> entry.line_number,
      message     |-> entry.message,
      level       |-> entry.level,
      step        |-> entry.step,
      filename    |-> filename ]

\* add_entry that forgets self.total_entries += 1.
AddEntry_noTotal(st, entry, filename) ==
    [ st EXCEPT
        !.level_counts = DictPut(@, entry.level, DictGet(@, entry.level, 0) + 1),
        !.entries_by_level =
            DictPut(@, entry.level,
                    Append(DictGet(@, entry.level, << >>),
                           EntryData(entry, filename))) ]

\* add_entry that files the record under its step without the `if entry.step`
\* test, so that a record with no step lands in a step bucket too.
AddEntry_noStepTest(st, entry, filename) ==
    LET lv == entry.level
        sp == entry.step
        data == EntryData(entry, filename)
        old == DictGet(st.step_counts, sp, EmptyDict)
    IN  [ st EXCEPT
            !.total_entries = @ + 1,
            !.level_counts = DictPut(@, lv, DictGet(@, lv, 0) + 1),
            !.entries_by_level = DictPut(@, lv, Append(DictGet(@, lv, << >>), data)),
            !.step_counts = DictPut(@, sp, DictPut(old, lv, DictGet(old, lv, 0) + 1)),
            !.entries_by_step = DictPut(@, sp, Append(DictGet(@, sp, << >>), data)),
            !.step_keys = IF sp \in DOMAIN st.step_counts THEN @ ELSE Append(@, sp) ]

\* add_entry that puts the new record at the front of its level bucket.
AddEntry_prepend(st, entry, filename) ==
    LET lv == entry.level
        sp == entry.step
        data == EntryData(entry, filename)
        old == DictGet(st.step_counts, sp, EmptyDict)
        st1 == [ st EXCEPT
                   !.total_entries = @ + 1,
                   !.level_counts = DictPut(@, lv, DictGet(@, lv, 0) + 1),
                   !.entries_by_level =
                       DictPut(@, lv, << data >> \o DictGet(@, lv, << >>)) ]
    IN  IF Truthy(sp)
        THEN [ st1 EXCEPT
                 !.step_counts =
                     DictPut(@, sp, DictPut(old, lv, DictGet(old, lv, 0) + 1)),
                 !.entries_by_step =
                     DictPut(@, sp, Append(DictGet(@, sp, << >>), data)),
                 !.step_keys =
                     IF sp \in DOMAIN st.step_counts THEN @ ELSE Append(@, sp) ]
        ELSE st1

\* LogAnalyzer.add_entry(entry, filename): the state after the call.  Indexing
\* a defaultdict creates the key (with 0, [] or an empty inner dict).
AddEntry(st, entry, filename) ==
    LET lv == entry.level
        sp == entry.step
        data == EntryData(entry, filename)
        old == DictGet(st.step_counts, sp, EmptyDict)
        st1 == [ st EXCEPT
                   !.total_entries = @ + 1,
                   !.level_counts = DictPut(@, lv, DictGet(@, lv, 0) + 1),
                   !.entries_by_level =
                       DictPut(@, lv, Append(DictGet(@, lv, << >>), data)) ]
    IN  IF Truthy(sp)
        THEN [ st1 EXCEPT
                 !.step_counts =
                     DictPut(@, sp, DictPut(old, lv, DictGet(old, lv, 0) + 1)),
                 !.entries_by_step =
                     DictPut(@, sp, Append(DictGet(@, sp, << >>), data)),
                 !.step_keys =
                     IF sp \in DOMAIN st.step_counts THEN @ ELSE Append(@, sp) ]
        ELSE st1

\* The value get_summary builds: copies of the counters and the step names.
SummaryOf(st) ==
    [ total_entries |-> st.total_entries,
      level_counts  |-> st.level_counts,
      step_counts   |-> st.step_counts,
      steps         |-> st.step_keys ]

\* get_summary that reads the three level counters by indexing the
\* defaultdict (self.level_counts[level]), which creates the missing keys.
GetSummary_indexing(st) ==
    [ value |-> SummaryOf(st),
      shared |-> { },
      state |-> [ st EXCEPT !.level_counts =
                    [ lv \in DOMAIN @ \cup { "CRITICAL", "ERROR", "WARNING" } |->
                        DictGet(@, lv, 0) ] ] ]

\* LogAnalyzer.get_summary(): the returned value, the state after the call,
\* and the keys of the returned dictionary whose value is an object of the
\* analyzer itself rather than a new one.  There is none: total_entries is an
\* int, dict(self.level_counts) and list(self.step_counts.keys()) are new
\* objects, and step_counts is a new dictionary of new dict(counts).
GetSummary(st) == [ value |-> SummaryOf(st), shared |-> { }, state |-> st ]

\* get_entries_by_level written as self.entries_by_level[level]: the lookup
\* creates an empty bucket for an unknown level.
GetEntriesByLevel_indexing(st, level) ==
    [ value |-> DictGet(st.entries_by_level, level, << >>),
      shared |-> TRUE,
      state |-> [ st EXCEPT !.entries_by_level =
                    DictPut(@, level, DictGet(@, level, << >>)) ] ]

\* LogAnalyzer.get_entries_by_level(level): .get(level, []) on the bucket map.
\* For a key of the map, .get returns the stored list itself, the object that
\* add_entry appends to (shared); for any other key it returns the new list
\* built for the default argument.
GetEntriesByLevel(st, level) ==
    [ value  |-> DictGet(st.entries_by_level, level, << >>),
      shared |-> level \in DOMAIN st.entries_by_level,
      state  |-> st ]

\* LogAnalyzer.get_entries_by_step(step): .get(step, []) on the bucket map,
\* with the same sharing.
GetEntriesByStep(st, step) ==
    [ value  |-> DictGet(st.entries_by_step, step, << >>),
      shared |-> step \in DOMAIN st.entries_by_step,
      state  |-> st ]

(***************************************************************************)
(* Specification SpecAnalyzer: any sequence of calls on one LogAnalyzer    *)
(***************************************************************************)

\* Most add_entry calls between two resets.
MaxAdds == 2

Levels == { "CRITICAL", "ERROR", "WARNING" }

\* filename = None, the default of add_entry.
NoneName == "<None>"

\* The records handed to add_entry: from line 1 every level with no step or
\* one of two named steps, from line 7 the same for ERROR (a second record
\* for a bucket that holds one), and one record whose step is the empty
\* string.
SampleSteps == { None, << "X" >>, << "Y" >> }

SampleEntries ==
    [ line_number : { 1 }, message : { << "m" >> },
      level : Levels, step : SampleSteps ]
    \cup [ line_number : { 7 }, message : { << "m" >> },
           level : { "ERROR" }, step : SampleSteps ]
    \cup [ line_number : { 1 }, message : { << "m" >> },
           level : { "ERROR" }, step : { << >> } ]

\* Keys asked of the read operations; "INFO" and "Z" are never added.
QueryLevels == Levels \cup { "INFO" }
QuerySteps == { << "X" >>, << "Y" >>, << "Z" >> }

InitAnalyzer ==
    /\ ClsIdle
    /\ AnalyzerIs(ResetState)
    /\ ObsIdle
    /\ RunIdle
    /\ RepIdle
    /\ GuiIdle

\* analyzer.add_entry(entry, filename)
add_entry(entry, filename) ==
    /\ Len(added) < MaxAdds
    /\ AnalyzerBecomes(AddEntry(AnalyzerState, entry, filename))
    /\ added' = Append(added, EntryData(entry, filename))
    /\ fresh' = FALSE
    /\ UNCHANGED << summary, returned, cls_vars, run_vars, rep_vars, gui_vars >>

\* analyzer.reset(); the callers' earlier results are dropped with it.
reset ==
    /\ AnalyzerBecomes(ResetState)
    /\ added' = << >>
    /\ summary' = << >>
    /\ returned' = << >>
    /\ fresh' = FALSE
    /\ UNCHANGED << cls_vars, run_vars, rep_vars, gui_vars >>

\* summary = analyzer.get_summary()
get_summary ==
    /\ AnalyzerBecomes(GetSummary(AnalyzerState).state)
    /\ summary' = << GetSummary(AnalyzerState).value >>
    /\ fresh' = TRUE
    /\ UNCHANGED << added, returned, cls_vars, run_vars, rep_vars, gui_vars >>

\* entries = analyzer.get_entries_by_level(level).  The caller keeps the list
\* object it was given: `value` is what the list held when it was returned,
\* `shared` whether it is the analyzer's own bucket.
get_entries_by_level(level) ==
    /\ AnalyzerBecomes(GetEntriesByLevel(AnalyzerState, level).state)
    /\ returned' = << [ op    |-> "level",
                        key   |-> << level >>,
                        value |-> GetEntriesByLevel(AnalyzerState, level).value,
                        shared |-> GetEntriesByLevel(AnalyzerState, level).shared ] >>
    /\ UNCHANGED << added, summary, fresh, cls_vars, run_vars, rep_vars, gui_vars >>

\* analyzer.get_entries_by_step(step)
get_entries_by_step(step) ==
    /\ AnalyzerBecomes(GetEntriesByStep(AnalyzerState, step).state)
    /\ returned' = << [ op    |-> "step",
                        key   |-> step,
                        value |-> GetEntriesByStep(AnalyzerState, step).value,
                        shared |-> GetEntriesByStep(AnalyzerState, step).shared ] >>
    /\ UNCHANGED << added, summary, fresh, cls_vars, run_vars, rep_vars, gui_vars >>

NextAnalyzer ==
    \/ \E e \in SampleEntries : add_entry(e, "test.log")
    \/ reset
    \/ get_summary
    \/ \E lv \in QueryLevels : get_entries_by_level(lv)
    \/ \E sp \in QuerySteps : get_entries_by_step(sp)

SpecAnalyzer == InitAnalyzer /\ [][NextAnalyzer]_vars

(***************************************************************************)
(* Claims about the aggregator                                             *)
(***************************************************************************)

RECURSIVE SumValues(_)
\* sum(d.values())
SumValues(d) ==
    IF DOMAIN d = {} THEN 0
    ELSE LET k == CHOOSE x \in DOMAIN d : TRUE
         IN  d[k] + SumValues([ x \in DOMAIN d \ { k } |-> d[x] ])

\* How many times x occurs in the sequence seq.
Count(seq, x) == Cardinality({ i \in DOMAIN seq : seq[i] = x })

\* C1: in every state reached by add_entry and reset calls, total_entries is
\* the sum of the level counts, and so it is in every returned summary.
C1_TotalIsSumOfLevels ==
    /\ total_entries = SumValues(level_counts)
    /\ summary # << >> =>
           summary[1].total_entries = SumValues(summary[1].level_counts)

\* Two records of different levels were added and a summary of them returned.
C1_Witness ==
    /\ total_entries = 2
    /\ Cardinality(DOMAIN level_counts) = 2
    /\ summary # << >>
    /\ summary[1].total_entries = 2

\* C2: every added record sits in the level bucket of its own level, as often
\* as it was added, and in no other level bucket; with a non-empty step it
\* sits likewise in the step bucket of its own step and in no other, and
\* without a step in no step bucket at all.
C2_OneBucketEach ==
    \A i \in DOMAIN added :
        LET r == added[i]
        IN  /\ r.level \in DOMAIN entries_by_level
            /\ \A lv \in DOMAIN entries_by_level :
                   Count(entries_by_level[lv], r) =
                       IF lv = r.level THEN Count(added, r) ELSE 0
            /\ Truthy(r.step) => r.step \in DOMAIN entries_by_step
            /\ \A sp \in DOMAIN entries_by_step :
                   Count(entries_by_step[sp], r) =
                       IF Truthy(r.step) /\ sp = r.step THEN Count(added, r)
                       ELSE 0

\* A record with a step and a record without one were both added.
C2_Witness ==
    /\ Len(added) = 2
    /\ Truthy(added[1].step)
    /\ added[2].step = None
    /\ Len(entries_by_step[added[1].step]) = 1

\* d2 agrees with d1 on every key other than key (same keys, same values).
SameExceptAt(d1, d2, key) ==
    \A k \in (DOMAIN d1 \cup DOMAIN d2) \ { key } :
        k \in DOMAIN d1 /\ k \in DOMAIN d2 /\ d2[k] = d1[k]

\* step_counts[sp][lv], 0 where a key is missing.
StepCount(sc, sp, lv) == DictGet(DictGet(sc, sp, EmptyDict), lv, 0)

\* The effect the claim gives for add_entry(e, f), between this state and the
\* next one.
AddEntryEffect(e, f) ==
    LET lv == e.level
        sp == e.step
        data == EntryData(e, f)
    IN  /\ total_entries' = total_entries + 1
        /\ lv \in DOMAIN level_counts'
        /\ level_counts'[lv] = DictGet(level_counts, lv, 0) + 1
        /\ SameExceptAt(level_counts, level_counts', lv)
        /\ lv \in DOMAIN entries_by_level'
        /\ entries_by_level'[lv] =
               Append(DictGet(entries_by_level, lv, << >>), data)
        /\ SameExceptAt(entries_by_level, entries_by_level', lv)
        /\ IF Truthy(sp)
           THEN /\ StepCount(step_counts', sp, lv) =
                       StepCount(step_counts, sp, lv) + 1
                /\ DOMAIN step_counts' = DOMAIN step_counts \cup { sp }
                /\ \A sp2 \in DOMAIN step_counts', lv2 \in Levels :
                       << sp2, lv2 >> # << sp, lv >> =>
                           StepCount(step_counts', sp2, lv2) =
                               StepCount(step_counts, sp2, lv2)
                /\ sp \in DOMAIN entries_by_step'
                /\ entries_by_step'[sp] =
                       Append(DictGet(entries_by_step, sp, << >>), data)
                /\ SameExceptAt(entries_by_step, entries_by_step', sp)
           ELSE /\ step_counts' = step_counts
                /\ entries_by_step' = entries_by_step

\* C5: one add_entry adds 1 to total_entries and to the count of the record's
\* level, appends the annotated record to the end of its level bucket and, only
\* if the record has a step, adds 1 to that step's count of the level and
\* appends the record to the end of the step bucket; nothing else changes.
C5_AddEntryFrame ==
    [][ \A e \in SampleEntries :
            add_entry(e, "test.log") => AddEntryEffect(e, "test.log") ]_vars

\* A second, different record was added to a level bucket and a step bucket
\* that already held one.
C5_Witness ==
    /\ Len(added) = 2
    /\ added[1] # added[2]
    /\ added[1].level = added[2].level
    /\ Truthy(added[2].step)
    /\ added[1].step = added[2].step
    /\ entries_by_level[added[2].level] = added

\* C6: get_summary leaves the aggregator as it was; on a new or reset
\* aggregator it returns total 0, no level counts and no steps; and a second
\* call with no add_entry or reset in between returns the same value.
C6_SummaryReadOnly ==
    /\ []( (fresh /\ added = << >>) =>
             summary = << [ total_entries |-> 0,
                            level_counts  |-> EmptyDict,
                            step_counts   |-> EmptyDict,
                            steps         |-> << >> ] >> )
    /\ [][ get_summary =>
             /\ UNCHANGED an_vars
             /\ fresh => summary' = summary ]_vars

\* A summary of a non-empty aggregator was returned and nothing was added
\* since.
C6_Witness ==
    /\ fresh
    /\ added # << >>
    /\ summary # << >>
    /\ summary[1].total_entries = Len(added)
    /\ summary[1].steps # << >>

\* The annotated records of the calls so far whose level is lv, in call order.
AddedWithLevel(lv) == SelectSeq(added, LAMBDA r : r.level = lv)

\* The annotated records of the calls so far whose step is sp, in call order.
AddedWithStep(sp) == SelectSeq(added, LAMBDA r : r.step = sp)

\* C7: get_entries_by_level and get_entries_by_step return the records added
\* under the key, in the order of the add_entry calls, the empty list for a
\* key never added, and leave every count and bucket as it was.
C7_EntriesReadOnlyInOrder ==
    [][ /\ \A lv \in QueryLevels :
               get_entries_by_level(lv) =>
                   /\ returned'[1].value = AddedWithLevel(lv)
                   /\ UNCHANGED an_vars
        /\ \A sp \in QuerySteps :
               get_entries_by_step(sp) =>
                   /\ returned'[1].value = AddedWithStep(sp)
                   /\ UNCHANGED an_vars ]_vars

\* A level never added was asked for on a non-empty aggregator.
C7_Witness ==
    /\ returned # << >>
    /\ returned[1].op = "level"
    /\ returned[1].key = << "INFO" >>
    /\ returned[1].value = << >>
    /\ added # << >>
    /\ "INFO" \notin DOMAIN entries_by_level

(***************************************************************************)
(* LogParser.parse_file and the command-line run (cli.py main)             *)
(***************************************************************************)

\* Most lines read in one run, over all files.
MaxTotalLines == 3

\* Lines as the file iterator hands them over, newline included:
\* "ERROR\n", "[STEP:X] CRITICAL\n" and "INFO\n".
SampleLines ==
    { << "E", "R", "R", "O", "R", "\n" >>,
      << "[", "S", "T", "E", "P", ":", "X", "]", " ",
         "C", "R", "I", "T", "I", "C", "A", "L", "\n" >>,
      << "I", "N", "F", "O", "\n" >> }

\* Paths, as sequences of components: two files of one directory.
FilePaths == { << "logs", "a.log" >>, << "logs", "b.txt" >> }

\* os.path.basename
Basename(path) == path[Len(path)]

\* A file nothing was read from yet.  state: "unread", "open" (inside the
\* with-block of parse_file), "done" (read to the end) or "error" (the
\* except branch of parse_file ran).
NewFile(path) == [ path |-> path, lines |-> << >>, state |-> "unread" ]

\* Path.suffix of the names the directories of the model hold.
Suffix(name) ==
    CASE name = "a.log" -> ".log"
      [] name = "b.txt" -> ".txt"
      [] name = "notes.md" -> ".md"
      [] OTHER -> ""

\* What a directory given as input can hold directly inside it, in the order
\* the file system lists it; "sub" is a directory.
Listings ==
    { << >>, << "notes.md", "sub" >>, << "b.txt", "a.log" >>,
      << "a.log", "notes.md" >>, << "sub", "b.txt" >> }

\* What the input path can be: a file, a directory, or neither.
Inputs ==
    { [ kind |-> "file", path |-> << "logs", "a.log" >>, entries |-> << >> ],
      [ kind |-> "missing", path |-> << "nowhere" >>, entries |-> << >> ] }
    \cup { [ kind |-> "dir", path |-> << "logs" >>, entries |-> e ] :
             e \in Listings }

\* path.glob('*' + suffix): the entries directly inside with that suffix.
Glob(inp, suffix) ==
    LET names == SelectSeq(inp.entries, LAMBDA n : Suffix(n) = suffix)
    IN  [ i \in DOMAIN names |-> inp.path \o << names[i] >> ]

\* find_log_files that hands back a path that is neither file nor directory.
find_log_files_keepInvalid(inp) ==
    IF inp.kind = "dir"
    THEN [ files |-> Glob(inp, ".log") \o Glob(inp, ".txt"), printed |-> << >> ]
    ELSE [ files |-> << inp.path >>, printed |-> << >> ]

\* cli.py find_log_files: the list returned and what it prints.
find_log_files(inp) ==
    IF inp.kind = "file"
    THEN [ files |-> << inp.path >>, printed |-> << >> ]
    ELSE IF inp.kind = "dir"
    THEN [ files |-> Glob(inp, ".log") \o Glob(inp, ".txt"), printed |-> << >> ]
    ELSE [ files |-> << >>,
           printed |-> << "Error: not a valid file or directory" >> ]

\* The lists of files parse_multiple_files is handed: the paths in any
\* order, none twice.
FileLists ==
    { << >> }
    \cup { << NewFile(a) >> : a \in FilePaths }
    \cup { << NewFile(a), NewFile(b) >> :
             << a, b >> \in { t \in FilePaths \X FilePaths : t[1] # t[2] } }

RECURSIVE TotalLines(_)
TotalLines(files) ==
    IF files = << >> THEN 0
    ELSE Len(Head(files).lines) + TotalLines(Tail(files))

\* One turn of `for line in f` that counts only the lines that match.
ReadLineStep_countMatches(n, l) ==
    IF _parse_line(l, n + 1) = << >>
    THEN [ line_number |-> n, entry |-> << >> ]
    ELSE [ line_number |-> n + 1, entry |-> _parse_line(l, n + 1) ]

\* One turn of `for line in f` in parse_file: line_number += 1, then
\* _parse_line; entry is <<>> when nothing is yielded for the line.
ReadLineStep(n, l) ==
    [ line_number |-> n + 1, entry |-> _parse_line(l, n + 1) ]

\* A scan error that is raised on instead of being caught: it leaves main.
ScanErrorOutcome_raised(i) ==
    [ pc |-> "crashed", file_idx |-> i, exit_code |-> << 1 >> ]

\* An exception under open() or the line iteration of file i: the except
\* branch of parse_file prints it and the generator ends, so the for loop of
\* the caller ends normally and the caller goes on with the next file.
ScanErrorOutcome(i) ==
    [ pc |-> "scan", file_idx |-> i + 1, exit_code |-> << >> ]

\* The reports one reporter block of main writes before it is through or
\* raises, and whether os.makedirs made the output directory.  what: "ok", or
\* the call that raises OSError: "dir" (os.makedirs in the constructor),
\* "summary" or "detailed" (open(filename, 'w')).
ReporterBlock(kind, detailed, what) ==
    IF what \in { "dir", "summary" }
    THEN [ written |-> << >>, raised |-> TRUE, made |-> what # "dir" ]
    ELSE IF what = "detailed"
    THEN [ written |-> << << kind, "summary" >> >>, raised |-> TRUE,
           made |-> TRUE ]
    ELSE [ written |-> IF detailed
                       THEN << << kind, "summary" >>, << kind, "detailed" >> >>
                       ELSE << << kind, "summary" >> >>,
           raised |-> FALSE, made |-> TRUE ]

\* What can happen in a reporter block; "detailed" only if it is asked for.
BlockOutcomes(detailed) ==
    IF detailed THEN { "ok", "dir", "summary", "detailed" }
    ELSE { "ok", "dir", "summary" }

Formats == { "csv", "markdown", "both" }

InitCli ==
    /\ ClsIdle
    /\ AnalyzerIs(ResetState)
    /\ ObsIdle
    /\ input_path \in Inputs
    /\ log_files = << >>
    /\ pc = "find"
    /\ file_idx = 0
    /\ line_number = 0
    /\ args \in [ format : Formats, detailed : BOOLEAN ]
    /\ yielded = << >>
    /\ reports = << >>
    /\ exit_code = << >>
    /\ out_dir_created = FALSE
    /\ raised = << >>
    /\ printed = << >>
    /\ RepIdle
    /\ GuiIdle

\* cli.py 95-109: find_log_files; no file found is printed and ends the
\* process with status 1; otherwise the parser and the analyzer are created
\* and the loop over the files starts.
main_find ==
    /\ pc = "find"
    /\ LET found == find_log_files(input_path)
       IN  /\ log_files' = [ i \in DOMAIN found.files |->
                                NewFile(found.files[i]) ]
           /\ IF found.files = << >>
              THEN /\ pc' = "exited"
                   /\ exit_code' = << 1 >>
                   /\ file_idx' = file_idx
                   /\ printed' = printed \o found.printed
                                    \o << "No log files found!" >>
              ELSE /\ pc' = "scan"
                   /\ exit_code' = exit_code
                   /\ file_idx' = 1
                   /\ printed' = printed \o found.printed
    /\ AnalyzerBecomes(ResetState)
    /\ UNCHANGED << rep_vars, gui_vars, cls_vars, obs_vars, line_number,
                    args, yielded, reports, io_vars >>

\* The for loop of main reaches a file and parse_file opens it.
main_open ==
    /\ pc = "scan"
    /\ file_idx <= Len(log_files)
    /\ log_files[file_idx].state = "unread"
    /\ log_files' = [ log_files EXCEPT ![file_idx].state = "open" ]
    /\ line_number' = 0
    /\ UNCHANGED << rep_vars, gui_vars, cls_vars, an_vars, obs_vars, pc, file_idx, args, yielded,
                    reports, exit_code, io_vars, printed >>

\* open() raises (no such file, no permission, unknown encoding).
main_open_error ==
    /\ pc = "scan"
    /\ file_idx <= Len(log_files)
    /\ log_files[file_idx].state = "unread"
    /\ log_files' = [ log_files EXCEPT ![file_idx].state = "error" ]
    /\ pc' = ScanErrorOutcome(file_idx).pc
    /\ file_idx' = ScanErrorOutcome(file_idx).file_idx
    /\ exit_code' = ScanErrorOutcome(file_idx).exit_code
    /\ UNCHANGED << rep_vars, gui_vars, cls_vars, an_vars, obs_vars, line_number, args, yielded,
                    reports, io_vars >>
    /\ printed' = Append(printed, "Error reading file")

\* One turn of the loops of cli.py 111-117: the file hands over its next
\* line l; a yielded entry goes to add_entry with the base name of the file.
ScanLine(l) ==
    /\ pc = "scan"
    /\ file_idx <= Len(log_files)
    /\ log_files[file_idx].state = "open"
    /\ LET f == log_files[file_idx]
           step == ReadLineStep(line_number, l)
       IN  /\ log_files' = [ log_files EXCEPT ![file_idx].lines = Append(@, l) ]
           /\ line_number' = step.line_number
           /\ IF step.entry # << >>
              THEN /\ AnalyzerBecomes(AddEntry(AnalyzerState, step.entry[1],
                                               Basename(f.path)))
                   /\ added' = Append(added, EntryData(step.entry[1],
                                                       Basename(f.path)))
              ELSE UNCHANGED << an_vars, added >>
    /\ UNCHANGED << rep_vars, gui_vars, cls_vars, summary, fresh, returned,
                    pc, file_idx, args, yielded, reports, exit_code, io_vars,
                    printed >>

main_line(l) ==
    /\ TotalLines(log_files) < MaxTotalLines
    /\ ScanLine(l)

\* The file is read to its end: the generator and the inner loop end.
main_eof ==
    /\ pc = "scan"
    /\ file_idx <= Len(log_files)
    /\ log_files[file_idx].state = "open"
    /\ log_files' = [ log_files EXCEPT ![file_idx].state = "done" ]
    /\ file_idx' = file_idx + 1
    /\ UNCHANGED << rep_vars, gui_vars, cls_vars, an_vars, obs_vars, pc, line_number, args,
                    yielded, reports, exit_code, io_vars, printed >>

\* Reading the next line raises (an I/O error in the middle of the file).
main_read_error ==
    /\ pc = "scan"
    /\ file_idx <= Len(log_files)
    /\ log_files[file_idx].state = "open"
    /\ log_files' = [ log_files EXCEPT ![file_idx].state = "error" ]
    /\ pc' = ScanErrorOutcome(file_idx).pc
    /\ file_idx' = ScanErrorOutcome(file_idx).file_idx
    /\ exit_code' = ScanErrorOutcome(file_idx).exit_code
    /\ UNCHANGED << rep_vars, gui_vars, cls_vars, an_vars, obs_vars, line_number, args, yielded,
                    reports, io_vars >>
    /\ printed' = Append(printed, "Error reading file")

\* cli.py 122: the loop over the files is through.
main_summary ==
    /\ pc = "scan"
    /\ file_idx > Len(log_files)
    /\ AnalyzerBecomes(GetSummary(AnalyzerState).state)
    /\ summary' = << GetSummary(AnalyzerState).value >>
    /\ fresh' = TRUE
    /\ pc' = "csv"
    /\ UNCHANGED << rep_vars, gui_vars, cls_vars, added, returned, log_files, file_idx,
                    line_number, args, yielded, reports, exit_code, io_vars, printed >>

\* cli.py 136-143: the CSV block; an exception in it leaves main uncaught and
\* the interpreter ends with status 1.
main_csv ==
    /\ pc = "csv"
    /\ IF args.format \in { "csv", "both" }
       THEN \E what \in BlockOutcomes(args.detailed) :
                LET b == ReporterBlock("csv", args.detailed, what)
                IN  /\ reports' = reports \o b.written
                    /\ pc' = IF b.raised THEN "crashed" ELSE "markdown"
                    /\ exit_code' = IF b.raised THEN << 1 >> ELSE exit_code
                    /\ out_dir_created' = (out_dir_created \/ b.made)
                    /\ raised' = IF b.raised
                                 THEN << [ kind |-> "csv", what |-> what ] >>
                                 ELSE raised
       ELSE /\ pc' = "markdown"
            /\ UNCHANGED << reports, exit_code, out_dir_created, raised >>
    /\ UNCHANGED << rep_vars, gui_vars, cls_vars, an_vars, obs_vars,
                    log_files, file_idx, line_number, args, yielded,
                    input_path, printed >>

\* cli.py 145-152: the Markdown block.
main_markdown ==
    /\ pc = "markdown"
    /\ IF args.format \in { "markdown", "both" }
       THEN \E what \in BlockOutcomes(args.detailed) :
                LET b == ReporterBlock("markdown", args.detailed, what)
                IN  /\ reports' = reports \o b.written
                    /\ pc' = IF b.raised THEN "crashed" ELSE "return"
                    /\ exit_code' = IF b.raised THEN << 1 >> ELSE exit_code
                    /\ out_dir_created' = (out_dir_created \/ b.made)
                    /\ raised' = IF b.raised
                                 THEN << [ kind |-> "markdown", what |-> what ] >>
                                 ELSE raised
       ELSE /\ pc' = "return"
            /\ UNCHANGED << reports, exit_code, out_dir_created, raised >>
    /\ UNCHANGED << rep_vars, gui_vars, cls_vars, an_vars, obs_vars,
                    log_files, file_idx, line_number, args, yielded,
                    input_path, printed >>

\* cli.py 154-155, 159: return 0, handed to sys.exit.
main_return ==
    /\ pc = "return"
    /\ pc' = "exited"
    /\ exit_code' = << 0 >>
    /\ printed' = Append(printed, "Done!")
    /\ UNCHANGED << rep_vars, gui_vars, cls_vars, an_vars, obs_vars,
                    log_files, file_idx, line_number, args, yielded, reports,
                    io_vars >>

NextCli ==
    \/ main_find
    \/ main_open
    \/ main_open_error
    \/ \E l \in SampleLines : main_line(l)
    \/ main_eof
    \/ main_read_error
    \/ main_summary
    \/ main_csv
    \/ main_markdown
    \/ main_return

SpecCli == InitCli /\ [][NextCli]_vars

(***************************************************************************)
(* Claims about the command-line run                                       *)
(***************************************************************************)

\* The reports a run with these arguments writes when no write fails.
ExpectedReports(a) ==
    LET block(kind) ==
            IF a.detailed
            THEN << << kind, "summary" >>, << kind, "detailed" >> >>
            ELSE << << kind, "summary" >> >>
    IN  (IF a.format \in { "csv", "both" } THEN block("csv") ELSE << >>)
        \o (IF a.format \in { "markdown", "both" } THEN block("markdown")
            ELSE << >>)

\* The loop over the files is behind the run.
ScanIsOver == pc \in { "csv", "markdown", "return", "exited", "crashed" }

\* C8: a file that cannot be opened or read does not end the run: the scan
\* goes on, so that once the run is past the loop every file was opened or
\* tried, and a run that found files and comes to its end without a report
\* write failing has written every report asked for and ends with status 0.
C8_ReadErrorNotFatal ==
    /\ pc = "scan" => exit_code = << >>
    /\ (ScanIsOver /\ log_files # << >>) =>
           \A i \in DOMAIN log_files : log_files[i].state \in { "done", "error" }
    /\ (pc = "exited" /\ log_files # << >>) =>
           /\ exit_code = << 0 >>
           /\ reports = ExpectedReports(args)

\* A finished run whose first file failed and whose second file was read.
C8_Witness ==
    /\ pc = "exited"
    /\ exit_code = << 0 >>
    /\ Len(log_files) = 2
    /\ log_files[1].state = "error"
    /\ log_files[2].state = "done"
    /\ log_files[2].lines # << >>
    /\ reports # << >>

\* C9: once the scan is over, the aggregator holds no record whose filename
\* is that of a file whose scan ended in an error.
C9_FailedFileContributesNothing ==
    ScanIsOver =>
        \A i \in DOMAIN log_files :
            log_files[i].state = "error" =>
                \A k \in DOMAIN added :
                    added[k].filename # Basename(log_files[i].path)

(***************************************************************************)
(* Specification SpecMulti: LogParser.parse_multiple_files, pulled to its  *)
(* end by a caller                                                         *)
(***************************************************************************)

InitMulti ==
    /\ ClsIdle
    /\ AnalyzerIs(ResetState)
    /\ ObsIdle
    /\ log_files \in FileLists
    /\ pc = "multi"
    /\ file_idx = 1
    /\ line_number = 0
    /\ args = [ format |-> "both", detailed |-> FALSE ]
    /\ yielded = << >>
    /\ reports = << >>
    /\ exit_code = << >>
    /\ input_path = [ kind |-> "missing", path |-> << >>, entries |-> << >> ]
    /\ out_dir_created = FALSE
    /\ raised = << >>
    /\ printed = << >>
    /\ RepIdle
    /\ GuiIdle

\* for filepath in filepaths: parse_file(filepath) opens the file.
multi_open ==
    /\ pc = "multi"
    /\ file_idx <= Len(log_files)
    /\ log_files[file_idx].state = "unread"
    /\ log_files' = [ log_files EXCEPT ![file_idx].state = "open" ]
    /\ line_number' = 0
    /\ UNCHANGED << rep_vars, gui_vars, cls_vars, an_vars, obs_vars, pc, file_idx, args, yielded,
                    reports, exit_code, io_vars, printed >>

\* open() raises; parse_file prints and ends, the outer loop goes on.
multi_open_error ==
    /\ pc = "multi"
    /\ file_idx <= Len(log_files)
    /\ log_files[file_idx].state = "unread"
    /\ log_files' = [ log_files EXCEPT ![file_idx].state = "error" ]
    /\ file_idx' = file_idx + 1
    /\ UNCHANGED << rep_vars, gui_vars, cls_vars, an_vars, obs_vars, pc, line_number, args,
                    yielded, reports, exit_code, io_vars >>
    /\ printed' = Append(printed, "Error reading file")

\* The file hands over its next line l; an entry is yielded with the path.
multi_line(l) ==
    /\ pc = "multi"
    /\ file_idx <= Len(log_files)
    /\ log_files[file_idx].state = "open"
    /\ TotalLines(log_files) < MaxTotalLines
    /\ LET step == ReadLineStep(line_number, l)
       IN  /\ log_files' = [ log_files EXCEPT ![file_idx].lines = Append(@, l) ]
           /\ line_number' = step.line_number
           /\ yielded' = IF step.entry # << >>
                         THEN Append(yielded, << log_files[file_idx].path,
                                                 step.entry[1] >>)
                         ELSE yielded
    /\ UNCHANGED << rep_vars, gui_vars, cls_vars, an_vars, obs_vars, pc, file_idx, args, reports,
                    exit_code, io_vars, printed >>

\* The file is read to its end.
multi_eof ==
    /\ pc = "multi"
    /\ file_idx <= Len(log_files)
    /\ log_files[file_idx].state = "open"
    /\ log_files' = [ log_files EXCEPT ![file_idx].state = "done" ]
    /\ file_idx' = file_idx + 1
    /\ UNCHANGED << rep_vars, gui_vars, cls_vars, an_vars, obs_vars, pc, line_number, args,
                    yielded, reports, exit_code, io_vars, printed >>

\* Reading the next line raises; parse_file prints and ends.
multi_read_error ==
    /\ pc = "multi"
    /\ file_idx <= Len(log_files)
    /\ log_files[file_idx].state = "open"
    /\ log_files' = [ log_files EXCEPT ![file_idx].state = "error" ]
    /\ file_idx' = file_idx + 1
    /\ UNCHANGED << rep_vars, gui_vars, cls_vars, an_vars, obs_vars, pc, line_number, args,
                    yielded, reports, exit_code, io_vars >>
    /\ printed' = Append(printed, "Error reading file")

\* The loop over filepaths is through: the generator is exhausted.
multi_exhausted ==
    /\ pc = "multi"
    /\ file_idx > Len(log_files)
    /\ pc' = "exhausted"
    /\ UNCHANGED << rep_vars, gui_vars, cls_vars, an_vars, obs_vars, log_files, file_idx,
                    line_number, args, yielded, reports, exit_code, io_vars, printed >>

NextMulti ==
    \/ multi_open
    \/ multi_open_error
    \/ \E l \in SampleLines : multi_line(l)
    \/ multi_eof
    \/ multi_read_error
    \/ multi_exhausted

SpecMulti == InitMulti /\ [][NextMulti]_vars

\* Position of the file with this path in the list handed over.
FileIndex(path) == CHOOSE i \in DOMAIN log_files : log_files[i].path = path

\* C10: the pairs come grouped by file in the order of the list, within a
\* file with strictly increasing line_number; each line_number is the 1-based
\* position of the line the record was made from, non-matching lines counted,
\* and every line read that holds a marker has its pair.
C10_YieldOrder ==
    /\ \A p, q \in DOMAIN yielded :
           p < q =>
               /\ FileIndex(yielded[p][1]) <= FileIndex(yielded[q][1])
               /\ yielded[p][1] = yielded[q][1] =>
                      yielded[p][2].line_number < yielded[q][2].line_number
    /\ \A p \in DOMAIN yielded :
           LET f == log_files[FileIndex(yielded[p][1])]
               e == yielded[p][2]
           IN  /\ e.line_number \in 1 .. Len(f.lines)
               /\ PriorityLevel(f.lines[e.line_number]) = << e.level >>
               /\ e.message = Strip(f.lines[e.line_number])
    /\ \A i \in DOMAIN log_files :
           \A k \in 1 .. Len(log_files[i].lines) :
               PriorityLevel(log_files[i].lines[k]) # << >> =>
                   \E p \in DOMAIN yielded :
                       /\ yielded[p][1] = log_files[i].path
                       /\ yielded[p][2].line_number = k

\* Two files were read; the first one's record comes from its second line,
\* after a line without a marker, and the second file's record follows it.
C10_Witness ==
    /\ pc = "exhausted"
    /\ Len(log_files) = 2
    /\ Len(yielded) = 2
    /\ yielded[1][1] = log_files[1].path
    /\ yielded[1][2].line_number = 2
    /\ PriorityLevel(log_files[1].lines[1]) = << >>
    /\ yielded[2][1] = log_files[2].path

(***************************************************************************)
(* Claims about input discovery and report failures in the command-line    *)
(* run                                                                     *)
(***************************************************************************)

\* The input holds nothing to scan: it is neither file nor directory, or a
\* directory with no .log and no .txt name directly inside it.
NothingToScan(inp) ==
    \/ inp.kind = "missing"
    \/ /\ inp.kind = "dir"
       /\ \A i \in DOMAIN inp.entries :
              Suffix(inp.entries[i]) \notin { ".log", ".txt" }

\* main has ended, by exit or by an exception.
RunEnded == pc \in { "exited", "crashed" }

\* A reporter of this format was constructed in the run.
Attempted(kind) ==
    \/ \E i \in DOMAIN reports : reports[i][1] = kind
    \/ raised # << >> /\ raised[1].kind = kind

\* C13: a report that cannot be written does not keep the other formats from
\* being tried: in every run that found files and has ended, a reporter was
\* constructed for each format asked for, whatever failed before it, and the
\* reports written before the failure are among the reports of the run.
C13_PendingFormatsStillAttempted ==
    (RunEnded /\ log_files # << >>) =>
        \A kind \in { "csv", "markdown" } :
            (args.format \in { kind, "both" }) => Attempted(kind)

\* C14: main never ends by an exception that nothing caught: no run reaches
\* the state in which an exception has left main.
C14_NoUncaughtException == pc # "crashed" /\ raised = << >>

\* C15: with nothing to scan the run prints that no log files were found and
\* exits with status 1 straight from discovery: no reporter is constructed, so
\* no report is written, no output directory is made and nothing is raised.
C15_NoFilesExitsBeforeReporters ==
    NothingToScan(input_path) =>
        /\ pc \in { "find", "exited" }
        /\ reports = << >>
        /\ ~ out_dir_created
        /\ raised = << >>
        /\ pc = "exited" =>
               /\ exit_code = << 1 >>
               /\ printed # << >>
               /\ printed[Len(printed)] = "No log files found!"

\* A run on a directory that holds only a .md file and a subdirectory has
\* exited with status 1; another state: the same for an invalid path.
C15_Witness ==
    /\ pc = "exited"
    /\ exit_code = << 1 >>
    /\ input_path.kind = "dir"
    /\ input_path.entries = << "notes.md", "sub" >>
    /\ printed = << "No log files found!" >>

(***************************************************************************)
(* Specification SpecStep: _parse_line applied to one line that holds the  *)
(* ERROR marker among pieces of step tags                                  *)
(***************************************************************************)

\* Most pieces around the marker.
MaxStepPieces == 4

\* What stands around the marker: the opening of a tag in upper and in lower
\* case, the closing bracket, a letter and a blank.
StepPieces ==
    { STEP_PREFIX, << "[", "s", "t", "e", "p", ":" >>, << "]" >>, << "X" >>,
      << " " >> }

RECURSIVE TextsOf(_)
TextsOf(n) ==
    IF n = 0 THEN { << >> }
    ELSE LET shorter == TextsOf(n - 1)
         IN  shorter \cup { t \o q : t \in shorter, q \in StepPieces }

\* "[STEP:Load] ERROR: failed"
ExampleLine ==
    << "[", "S", "T", "E", "P", ":", "L", "o", "a", "d", "]", " ",
       "E", "R", "R", "O", "R", ":", " ", "f", "a", "i", "l", "e", "d" >>

StepLines ==
    { ExampleLine }
    \cup UNION { { pre \o KW_ERROR \o post :
                     pre \in TextsOf(k), post \in TextsOf(MaxStepPieces - k) } :
                 k \in 0 .. MaxStepPieces }

InitStep ==
    /\ line \in StepLines
    /\ parsed = << >>
    /\ AnalyzerIs(ResetState)
    /\ ObsIdle
    /\ RunIdle
    /\ RepIdle
    /\ GuiIdle

NextStep == ParseLine

SpecStep == InitStep /\ [][NextStep]_vars

(***************************************************************************)
(* Claims about the step tag and the message of a record                   *)
(***************************************************************************)

\* The positions of s that hold no whitespace.
Inked(s) == { k \in DOMAIN s : ~ IsSpace(s[k]) }

First(S) == CHOOSE k \in S : \A j \in S : k <= j
Last(S) == CHOOSE k \in S : \A j \in S : j <= k

\* s without the whitespace at its two ends.
Trim(s) == IF Inked(s) = { } THEN << >>
           ELSE SubSeq(s, First(Inked(s)), Last(Inked(s)))

\* s without the whitespace at its end.
TrimRight(s) == IF Inked(s) = { } THEN << >>
                ELSE SubSeq(s, 1, Last(Inked(s)))

\* The positions at which "[STEP:" stands in s, in upper or lower case.
TagOpenings(s) ==
    { i \in 1 .. Len(s) - 5 :
        \A k \in 1 .. 6 : Fold(s[i + k - 1]) = STEP_PREFIX[k] }

\* The closing brackets behind the opening at i.
Closings(s, i) == { j \in i + 6 .. Len(s) : s[j] = "]" }

\* The opening at i starts a tag [STEP:<text>]: a closing bracket follows and
\* the first one leaves some text in front of it.
WellFormedTag(s, i) ==
    /\ Closings(s, i) # { }
    /\ First(Closings(s, i)) > i + 6

\* The step a line stands for: the trimmed text of its first tag, None if it
\* holds no tag.
ExpectedStep(s) ==
    LET tags == { i \in TagOpenings(s) : WellFormedTag(s, i) }
    IN  IF tags = { } THEN None
        ELSE LET i == First(tags)
             IN  Trim(SubSeq(s, i + 6, First(Closings(s, i)) - 1))

\* C12: a line with a marker gives a record, whatever its tags look like, and
\* the step of the record is the trimmed text of the first [STEP:<text>] tag
\* of the line, wherever the tag stands, and None if the line holds no tag
\* with a closing bracket and some text.
C12_StepIsFirstTagTrimmed ==
    (parsed # << >> /\ PriorityLevel(line) # << >>) =>
        /\ parsed[1] # << >>
        /\ parsed[1][1].step = ExpectedStep(line)
        /\ << parsed[1][1].level >> = PriorityLevel(line)

\* "[STEP:Load] ERROR: failed" gave level ERROR and step "Load".
C12_Witness ==
    /\ line = ExampleLine
    /\ parsed # << >>
    /\ parsed[1] # << >>
    /\ parsed[1][1].level = "ERROR"
    /\ parsed[1][1].step = << "L", "o", "a", "d" >>

\* A tag behind the marker, in lower case and with blanks around its text.
C12_WitnessBehind ==
    /\ line = KW_ERROR \o << "[", "s", "t", "e", "p", ":", " ", "X", "]" >>
    /\ parsed # << >>
    /\ parsed[1] # << >>
    /\ parsed[1][1].step = << "X" >>

\* C18: the message of a record is the line without its trailing whitespace;
\* whitespace in front of the line is kept.
C18_MessageKeepsLeadingWhitespace ==
    (parsed # << >> /\ parsed[1] # << >>) =>
        parsed[1][1].message = TrimRight(line)

(***************************************************************************)
(* Specification SpecScan: the command-line run up to its summary, on one  *)
(* file that is read to its end without an error                           *)
(***************************************************************************)

\* Most lines of the file.
MaxScanLines == 5

\* "... ERROR: a\n", "... WARNING: b\n", "[STEP:X] CRITICAL: c\n",
\* "... INFO: d\n" and "[STEP:Y] ERROR: e\n".
ScenarioLines ==
    << << ".", ".", ".", " ", "E", "R", "R", "O", "R", ":", " ", "a", "\n" >>,
       << ".", ".", ".", " ", "W", "A", "R", "N", "I", "N", "G", ":", " ", "b",
          "\n" >>,
       << "[", "S", "T", "E", "P", ":", "X", "]", " ",
          "C", "R", "I", "T", "I", "C", "A", "L", ":", " ", "c", "\n" >>,
       << ".", ".", ".", " ", "I", "N", "F", "O", ":", " ", "d", "\n" >>,
       << "[", "S", "T", "E", "P", ":", "Y", "]", " ",
          "E", "R", "R", "O", "R", ":", " ", "e", "\n" >> >>

InitScan ==
    /\ ClsIdle
    /\ AnalyzerIs(ResetState)
    /\ ObsIdle
    /\ input_path = [ kind |-> "file", path |-> << "logs", "a.log" >>,
                      entries |-> << >> ]
    /\ log_files = << >>
    /\ pc = "find"
    /\ file_idx = 0
    /\ line_number = 0
    /\ args = [ format |-> "both", detailed |-> FALSE ]
    /\ yielded = << >>
    /\ reports = << >>
    /\ exit_code = << >>
    /\ out_dir_created = FALSE
    /\ raised = << >>
    /\ printed = << >>
    /\ RepIdle
    /\ GuiIdle

scan_line(l) ==
    /\ TotalLines(log_files) < MaxScanLines
    /\ ScanLine(l)

NextScan ==
    \/ main_find
    \/ main_open
    \/ \E k \in DOMAIN ScenarioLines : scan_line(ScenarioLines[k])
    \/ main_eof
    \/ main_summary

SpecScan == InitScan /\ [][NextScan]_vars

\* The lines read from all files, in the order read.
RECURSIVE LinesRead(_)
LinesRead(files) ==
    IF files = << >> THEN << >>
    ELSE Head(files).lines \o LinesRead(Tail(files))

\* What each line stands for: its level, << >> without a marker, and the
\* step it names.
Reading(lines) ==
    [ k \in DOMAIN lines |-> [ level |-> PriorityLevel(lines[k]),
                               step  |-> ExpectedStep(lines[k]) ] ]

\* How many of the lines hold a marker, how many have this level, and how
\* many have this level and name this step.
Marked(rd) == Cardinality({ k \in DOMAIN rd : rd[k].level # << >> })
OfLevel(rd, lv) == Cardinality({ k \in DOMAIN rd : rd[k].level = << lv >> })
OfStepAndLevel(rd, sp, lv) ==
    Cardinality({ k \in DOMAIN rd : /\ rd[k].level = << lv >>
                                    /\ rd[k].step = sp })

\* The steps the tagged lines with a marker name.
StepsNamed(rd) ==
    { rd[k].step : k \in { j \in DOMAIN rd : /\ rd[j].level # << >>
                                             /\ Truthy(rd[j].step) } }

\* C11: when every file was read to its end, the summary taken after the
\* scan counts the lines read: total_entries is the number of lines with a
\* marker, level_counts holds for each level the number of lines of that
\* level and no other key, and step_counts holds for each step named by a
\* line with a marker the number of such lines per level.
C11_SummaryCountsTheLines ==
    (pc = "csv" /\ \A i \in DOMAIN log_files : log_files[i].state = "done") =>
        LET rd == Reading(LinesRead(log_files))
            s == summary[1]
        IN  /\ s.total_entries = Marked(rd)
            /\ DOMAIN s.level_counts \subseteq Levels
            /\ \A lv \in Levels :
                   DictGet(s.level_counts, lv, 0) = OfLevel(rd, lv)
            /\ DOMAIN s.step_counts = StepsNamed(rd)
            /\ \A sp \in StepsNamed(rd) :
                   /\ DOMAIN s.step_counts[sp] \subseteq Levels
                   /\ \A lv \in Levels :
                          StepCount(s.step_counts, sp, lv)
                              = OfStepAndLevel(rd, sp, lv)

\* The five lines of the scenario were read in their order: four records,
\* ERROR twice, WARNING and CRITICAL once, X with one CRITICAL and Y with one
\* ERROR.
C11_Witness ==
    /\ pc = "csv"
    /\ Len(log_files) = 1
    /\ log_files[1].state = "done"
    /\ log_files[1].lines = ScenarioLines
    /\ summary[1].total_entries = 4
    /\ summary[1].level_counts
           = [ lv \in Levels |-> IF lv = "ERROR" THEN 2 ELSE 1 ]
    /\ summary[1].step_counts
           = [ sp \in { << "X" >>, << "Y" >> } |->
                 IF sp = << "X" >> THEN [ lv \in { "CRITICAL" } |-> 1 ]
                 ELSE [ lv \in { "ERROR" } |-> 1 ] ]

(***************************************************************************)
(* The report writers (reporter.py)                                        *)
(***************************************************************************)

\* The clock ticks this many times in a second.
TicksPerSecond == 2

\* MarkdownReporter.generate_detailed_report(..., max_entries: int = 100)
DefaultMaxEntries == 100

\* datetime.now().strftime("%Y%m%d_%H%M%S"): the second the tick t lies in;
\* what is below a second is not printed.
Timestamp(t) == t \div TicksPerSecond

\* BaseReporter.generate_filename: os.path.join(self.output_dir,
\* f"{prefix}_{timestamp}.{extension}"), the path as its four parts.
generate_filename(prefix, extension, t) ==
    << "out", prefix, Timestamp(t), extension >>

\* The characters of the step names, in code point order.
Alphabet == << "X", "Y", "Z" >>

Rank(c) == CHOOSE i \in DOMAIN Alphabet : Alphabet[i] = c

\* a < b for two str.
RECURSIVE LexLess(_, _)
LexLess(a, b) ==
    IF b = << >> THEN FALSE
    ELSE IF a = << >> THEN TRUE
    ELSE IF Head(a) = Head(b) THEN LexLess(Tail(a), Tail(b))
    ELSE Rank(Head(a)) < Rank(Head(b))

\* sorted(keys)
RECURSIVE Sorted(_)
Sorted(keys) ==
    IF keys = { } THEN << >>
    ELSE LET least == CHOOSE x \in keys :
                          \A y \in keys \ { x } : LexLess(x, y)
         IN  << least >> \o Sorted(keys \ { least })

\* What csv.writer and an f-string print for a value that may be None or
\* empty under `if value` or .get(key, ''): the text, or nothing.
TextOr(v) == IF Truthy(v) THEN v ELSE << >>

\* The rows of level counts and of step counts both summary reports hold.
LevelRows(s) ==
    [ i \in 1 .. 3 |->
        LET lv == << "CRITICAL", "ERROR", "WARNING" >>[i]
        IN  [ kind |-> "level", level |-> lv,
              count |-> DictGet(s.level_counts, lv, 0) ] ]

StepRows(s) ==
    LET steps == Sorted(DOMAIN s.step_counts)
    IN  [ i \in DOMAIN steps |->
            LET counts == s.step_counts[steps[i]]
                critical == DictGet(counts, "CRITICAL", 0)
                error == DictGet(counts, "ERROR", 0)
                warning == DictGet(counts, "WARNING", 0)
            IN  [ kind |-> "step", step |-> steps[i], critical |-> critical,
                  error |-> error, warning |-> warning,
                  total |-> critical + error + warning ] ]

\* CSVReporter.generate_summary_report: what is written to the file.
CsvSummary(s) ==
    << [ kind |-> "total", count |-> s.total_entries ] >>
    \o LevelRows(s)
    \o (IF DOMAIN s.step_counts # { }
        THEN << [ kind |-> "steps" ] >> \o StepRows(s) ELSE << >>)

\* MarkdownReporter.generate_summary_report, written at tick t.
MdSummary(s, t) ==
    << [ kind |-> "title" ], [ kind |-> "generated", at |-> Timestamp(t) ],
       [ kind |-> "total", count |-> s.total_entries ] >>
    \o LevelRows(s)
    \o (IF DOMAIN s.step_counts # { }
        THEN << [ kind |-> "steps" ] >> \o StepRows(s) ELSE << >>)

DetailLevels == << "CRITICAL", "ERROR", "WARNING" >>

\* One row of the detailed CSV report.
CsvRow(e) ==
    [ kind |-> "entry", level |-> e.level, step |-> TextOr(e.step),
      line_number |-> e.line_number, filename |-> TextOr(e.filename),
      message |-> e.message ]

\* CSVReporter.generate_detailed_report: the header and one row for every
\* entry of get_entries_by_level, level after level.
CsvDetailed(st) ==
    LET Rows(lv) == LET entries == GetEntriesByLevel(st, lv).value
                    IN  [ i \in DOMAIN entries |-> CsvRow(entries[i]) ]
    IN  << [ kind |-> "header" ] >>
        \o Rows(DetailLevels[1]) \o Rows(DetailLevels[2])
        \o Rows(DetailLevels[3])

\* One entry of the detailed Markdown report.
MdEntry(e) ==
    [ kind |-> "entry", line_number |-> e.line_number,
      filename |-> TextOr(e.filename), step |-> TextOr(e.step),
      message |-> e.message ]

\* entries[:max_entries], max_entries >= 0.
Slice(entries, max_entries) ==
    SubSeq(entries, 1, IF max_entries < Len(entries) THEN max_entries
                       ELSE Len(entries))

\* The detailed Markdown report with the note written from max_entries
\* entries on.
MdDetailed_noteAtCap(st, max_entries, t) ==
    LET Section(lv) ==
            LET entries == GetEntriesByLevel(st, lv).value
                shown == Slice(entries, max_entries)
            IN  IF entries = << >> THEN << >>
                ELSE << [ kind |-> "level", level |-> lv,
                          total |-> Len(entries) ] >>
                     \o [ i \in DOMAIN shown |-> MdEntry(shown[i]) ]
                     \o (IF Len(entries) >= max_entries
                         THEN << [ kind |-> "note", level |-> lv,
                                   more |-> Len(entries) - max_entries ] >>
                         ELSE << >>)
    IN  << [ kind |-> "title" ], [ kind |-> "generated", at |-> Timestamp(t) ] >>
        \o Section(DetailLevels[1]) \o Section(DetailLevels[2])
        \o Section(DetailLevels[3])

\* MarkdownReporter.generate_detailed_report, written at tick t: for each
\* level with entries its heading, the first max_entries entries and, if
\* there are more, the note "...and <more> more <level> messages".
MdDetailed(st, max_entries, t) ==
    LET Section(lv) ==
            LET entries == GetEntriesByLevel(st, lv).value
                shown == Slice(entries, max_entries)
            IN  IF entries = << >> THEN << >>
                ELSE << [ kind |-> "level", level |-> lv,
                          total |-> Len(entries) ] >>
                     \o [ i \in DOMAIN shown |-> MdEntry(shown[i]) ]
                     \o (IF Len(entries) > max_entries
                         THEN << [ kind |-> "note", level |-> lv,
                                   more |-> Len(entries) - max_entries ] >>
                         ELSE << >>)
    IN  << [ kind |-> "title" ], [ kind |-> "generated", at |-> Timestamp(t) ] >>
        \o Section(DetailLevels[1]) \o Section(DetailLevels[2])
        \o Section(DetailLevels[3])

(***************************************************************************)
(* Specifications SpecDetailed and SpecFilename: report-generation calls   *)
(* on one output directory, over a LogAnalyzer that holds stored entries   *)
(***************************************************************************)

\* Most entries stored in the LogAnalyzer, most report-generation calls and
\* the last tick of the clock.
MaxStored == 3
MaxCalls == 2
MaxTicks == 3

\* "a.log"
LogName == << "a", ".", "l", "o", "g" >>

\* The add_entry calls the stored entries come from.
StoredSamples ==
    { [ entry |-> [ line_number |-> 1, message |-> << "m" >>,
                    level |-> "CRITICAL", step |-> None ],
        filename |-> LogName ],
      [ entry |-> [ line_number |-> 1, message |-> << "m" >>,
                    level |-> "ERROR", step |-> << "X" >> ],
        filename |-> None ],
      [ entry |-> [ line_number |-> 7, message |-> << "m" >>,
                    level |-> "ERROR", step |-> None ],
        filename |-> LogName ],
      [ entry |-> [ line_number |-> 1, message |-> << "m" >>,
                    level |-> "WARNING", step |-> << "Y" >> ],
        filename |-> LogName ] }

RECURSIVE StoredSeqs(_)
StoredSeqs(n) ==
    IF n = 0 THEN { << >> }
    ELSE LET shorter == StoredSeqs(n - 1)
         IN  shorter \cup { Append(q, e) : q \in shorter, e \in StoredSamples }

\* The LogAnalyzer after these add_entry calls.
RECURSIVE Feed(_, _)
Feed(st, seq) ==
    IF seq = << >> THEN st
    ELSE Feed(AddEntry(st, Head(seq).entry, Head(seq).filename), Tail(seq))

\* The values of max_entries the detailed Markdown report is asked for.
MaxEntriesArgs == { 1, 2, DefaultMaxEntries }

\* A reporter was constructed on the output directory and the LogAnalyzer
\* was fed one of the sequences.
InitReport(seqs) ==
    /\ ClsIdle
    /\ \E seq \in seqs :
           /\ AnalyzerIs(Feed(ResetState, seq))
           /\ added = [ i \in DOMAIN seq |->
                          EntryData(seq[i].entry, seq[i].filename) ]
    /\ summary = << >>
    /\ fresh = FALSE
    /\ returned = << >>
    /\ RunIdle
    /\ RepIdle
    /\ GuiIdle

\* One report-generation call with no explicit filename: the file at the
\* generated path is opened with mode 'w' and written.
WriteReport(kind, what, extension, max_entries, content) ==
    /\ Len(calls) < MaxCalls
    /\ LET path == generate_filename(what, extension, now)
       IN  /\ out_files' = DictPut(out_files, path, content)
           /\ calls' = Append(calls, [ path |-> path, kind |-> kind,
                                       what |-> what,
                                       max_entries |-> max_entries ])
    /\ UNCHANGED << now, cls_vars, an_vars, obs_vars, run_vars, gui_vars >>

csv_generate_summary_report ==
    WriteReport("csv", "summary", "csv", 0,
                CsvSummary(GetSummary(AnalyzerState).value))

md_generate_summary_report ==
    WriteReport("markdown", "summary", "md", 0,
                MdSummary(GetSummary(AnalyzerState).value, now))

csv_generate_detailed_report ==
    WriteReport("csv", "detailed", "csv", 0, CsvDetailed(AnalyzerState))

md_generate_detailed_report(max_entries) ==
    WriteReport("markdown", "detailed", "md", max_entries,
                MdDetailed(AnalyzerState, max_entries, now))

\* Time passes.
tick ==
    /\ now < MaxTicks
    /\ now' = now + 1
    /\ UNCHANGED << out_files, calls, cls_vars, an_vars, obs_vars, run_vars,
                    gui_vars >>

InitDetailed == InitReport(StoredSeqs(MaxStored))

NextDetailed ==
    \/ csv_generate_detailed_report
    \/ \E m \in MaxEntriesArgs : md_generate_detailed_report(m)

SpecDetailed == InitDetailed /\ [][NextDetailed]_vars

InitFilename == InitReport(StoredSeqs(1))

NextFilename ==
    \/ tick
    \/ csv_generate_summary_report
    \/ md_generate_summary_report
    \/ csv_generate_detailed_report
    \/ md_generate_detailed_report(DefaultMaxEntries)

SpecFilename == InitFilename /\ [][NextFilename]_vars

(***************************************************************************)
(* Claims about the report writers                                         *)
(***************************************************************************)

\* The entries added with the three levels, level after level.
AddedByLevel ==
    AddedWithLevel("CRITICAL") \o AddedWithLevel("ERROR")
        \o AddedWithLevel("WARNING")

\* The positions of the headings and of the notes of a level in a detailed
\* Markdown report.
Headings(content, lv) ==
    { k \in DOMAIN content : content[k].kind = "level" /\ content[k].level = lv }
Notes(content, lv) ==
    { k \in DOMAIN content : content[k].kind = "note" /\ content[k].level = lv }

\* A detailed Markdown report holds of a level without entries nothing, and
\* of a level with n entries its heading with n, behind it the first
\* max_entries of them in the order added, and behind these the note with
\* n - max_entries if and only if n > max_entries.
MdLevelOk(content, lv, max_entries) ==
    LET stored == AddedWithLevel(lv)
        n == Len(stored)
        shown == IF max_entries < n THEN max_entries ELSE n
        hs == Headings(content, lv)
    IN  IF n = 0 THEN hs = { } /\ Notes(content, lv) = { }
        ELSE /\ Cardinality(hs) = 1
             /\ LET h == First(hs)
                IN  /\ content[h].total = n
                    /\ h + shown <= Len(content)
                    /\ \A i \in 1 .. shown :
                           /\ content[h + i].kind = "entry"
                           /\ content[h + i].line_number = stored[i].line_number
                           /\ content[h + i].message = stored[i].message
                    /\ IF n > max_entries
                       THEN /\ Notes(content, lv) = { h + shown + 1 }
                            /\ content[h + shown + 1].more = n - max_entries
                       ELSE /\ Notes(content, lv) = { }
                            /\ \/ h + shown = Len(content)
                               \/ content[h + shown + 1].kind = "level"

\* C16: the detailed CSV report holds one row for every entry added, level
\* after level in the order CRITICAL, ERROR, WARNING and within a level in the
\* order added; the detailed Markdown report holds for each level, in that
\* order, the first max_entries entries and a note with the number left out
\* exactly when the level holds more than max_entries.
C16_DetailedReportsByLevel ==
    calls # << >> =>
        LET c == calls[Len(calls)]
            content == out_files[c.path]
            rows == SelectSeq(content, LAMBDA r : r.kind = "entry")
        IN  /\ (c.what = "detailed" /\ c.kind = "csv") =>
                   /\ Len(rows) = Len(AddedByLevel)
                   /\ \A i \in DOMAIN rows :
                          /\ rows[i].level = AddedByLevel[i].level
                          /\ rows[i].line_number = AddedByLevel[i].line_number
                          /\ rows[i].message = AddedByLevel[i].message
            /\ (c.what = "detailed" /\ c.kind = "markdown") =>
                   /\ \A lv \in Levels : MdLevelOk(content, lv, c.max_entries)
                   /\ \A a, b \in 1 .. 3 :
                          \A ha \in Headings(content, DetailLevels[a]),
                             hb \in Headings(content, DetailLevels[b]) :
                              a < b => ha < hb
                   /\ Len(rows) + Cardinality(UNION { Headings(content, lv)
                                                      \cup Notes(content, lv) :
                                                      lv \in Levels }) + 2
                          = Len(content)

\* A detailed Markdown report with max_entries 2 over three ERROR entries:
\* the first two, in the order added, and the note with 1.
C16_Witness ==
    /\ calls # << >>
    /\ calls[Len(calls)].kind = "markdown"
    /\ calls[Len(calls)].what = "detailed"
    /\ calls[Len(calls)].max_entries = 2
    /\ Len(AddedWithLevel("ERROR")) = 3
    /\ added[1].line_number = 7
    /\ added[2].line_number = 1
    /\ LET content == out_files[calls[Len(calls)].path]
       IN  /\ Len(content) = 6
           /\ content[4].line_number = 7
           /\ content[5].line_number = 1
           /\ content[6] = [ kind |-> "note", level |-> "ERROR", more |-> 1 ]

\* A detailed CSV report over a WARNING, an ERROR and a CRITICAL entry added
\* in this order lists them the other way round.
C16_WitnessCsv ==
    /\ calls # << >>
    /\ calls[Len(calls)].kind = "csv"
    /\ calls[Len(calls)].what = "detailed"
    /\ Len(added) = 3
    /\ added[1].level = "WARNING"
    /\ added[2].level = "ERROR"
    /\ added[3].level = "CRITICAL"
    /\ out_files[calls[Len(calls)].path][2].level = "CRITICAL"

\* C17: two report-generation calls of the same writer for the same kind of
\* report, both without a filename, never get the same path.
C17_GeneratedPathsDistinct ==
    \A i, j \in DOMAIN calls :
        (/\ i < j
         /\ calls[i].kind = calls[j].kind
         /\ calls[i].what = calls[j].what) => calls[i].path # calls[j].path

(***************************************************************************)
(* Specifications SpecGui and SpecGuiFair: the window (gui.py), its        *)
(* foreground loop and the threads analyze_logs starts                     *)
(***************************************************************************)

\* Most analyses started and most entries one analysis adds.
MaxRuns == 2
MaxRunEntries == 1

\* gui.py LogAnalyzerGUI.find_log_files: as that of cli.py, nothing printed.
gui_find_log_files(inp) ==
    IF inp.kind = "file" THEN << inp.path >>
    ELSE IF inp.kind = "dir" THEN Glob(inp, ".log") \o Glob(inp, ".txt")
    ELSE << >>

\* analyze_logs that starts the progress bar and leaves the button as it is.
AnalyzeLogsStart_enabled ==
    [ analyze_btn |-> "normal", progress |-> "running" ]

\* gui.py 195-196: analyze_btn.configure(state='disabled'); progress.start.
AnalyzeLogsStart ==
    [ analyze_btn |-> "disabled", progress |-> "running" ]

\* A finally clause that schedules nothing.
RunFinally_nothing == << >>

\* gui.py 290-292: what the finally clause of _run_analysis hands to
\* root.after.
RunFinally == << "_finish_analysis" >>

\* A thread at the top of _run_analysis: no file found yet, no LogAnalyzer
\* made yet.
NewWorker ==
    [ pc |-> "find", files |-> 0, analyzer |-> << >>, outcome |-> "running" ]

\* The record an analysis adds for a line with a marker.
RunEntry ==
    [ line_number |-> 1, message |-> KW_ERROR, level |-> "ERROR",
      step |-> None ]

\* _run_analysis has statements left to run in thread i.
Active(i) == workers[i].pc # "done"

InitGui ==
    /\ ClsIdle
    /\ AnalyzerIs(ResetState)
    /\ ObsIdle
    /\ RunIdle
    /\ RepIdle
    /\ analyze_btn = "normal"
    /\ progress = "stopped"
    /\ workers = << >>
    /\ after_queue = << >>

\* The user clicks the button; Tk runs the command of a button only while
\* its state is normal.  gui.py 183-202: without an input or an output path
\* a dialog is shown and nothing else happens; otherwise the button is
\* disabled, the progress bar started and the thread started.
analyze_logs(has_input, has_output) ==
    /\ analyze_btn = "normal"
    /\ Len(workers) < MaxRuns
    /\ IF has_input /\ has_output
       THEN /\ analyze_btn' = AnalyzeLogsStart.analyze_btn
            /\ progress' = AnalyzeLogsStart.progress
            /\ workers' = Append(workers, NewWorker)
       ELSE UNCHANGED << analyze_btn, progress, workers >>
    /\ UNCHANGED << after_queue, cls_vars, an_vars, obs_vars, run_vars,
                    rep_vars >>

\* What a step of thread i leaves alone.
WorkerFrame ==
    UNCHANGED << analyze_btn, progress, cls_vars, an_vars, obs_vars, run_vars,
                 rep_vars >>

\* gui.py 207-225: find_log_files on what the input path names now; with no
\* file the dialog is scheduled and the function returns through finally.
run_find(i, inp) ==
    /\ workers[i].pc = "find"
    /\ LET found == gui_find_log_files(inp)
       IN  IF found = << >>
           THEN /\ after_queue' = Append(after_queue, "showerror")
                /\ workers' = [ workers EXCEPT ![i].pc = "finally",
                                               ![i].outcome = "no files" ]
           ELSE /\ after_queue' = after_queue
                /\ workers' = [ workers EXCEPT ![i].pc = "scan",
                                               ![i].files = Len(found),
                                               ![i].analyzer = << ResetState >> ]
    /\ WorkerFrame

\* gui.py 230-232: parse_file yields an entry and it is added to the
\* LogAnalyzer of this thread.
run_add_entry(i) ==
    /\ workers[i].pc = "scan"
    /\ workers[i].files > 0
    /\ workers[i].analyzer[1].total_entries < MaxRunEntries
    /\ workers' = [ workers EXCEPT
                      ![i].analyzer = << AddEntry(@[1], RunEntry, LogName) >> ]
    /\ UNCHANGED after_queue
    /\ WorkerFrame

\* The file is through, read to its end or given up after an error that
\* parse_file or the except clause of gui.py 233 caught.
run_next_file(i) ==
    /\ workers[i].pc = "scan"
    /\ workers[i].files > 0
    /\ workers' = [ workers EXCEPT ![i].files = @ - 1 ]
    /\ UNCHANGED after_queue
    /\ WorkerFrame

\* gui.py 237-249: the loop is through, get_summary and the messages.
run_summary(i) ==
    /\ workers[i].pc = "scan"
    /\ workers[i].files = 0
    /\ workers' = [ workers EXCEPT
                      ![i].pc = "reports",
                      ![i].analyzer = << GetSummary(@[1]).state >> ]
    /\ UNCHANGED after_queue
    /\ WorkerFrame

\* gui.py 251-281: the two reporter blocks; an exception in one of them
\* goes to the except clause, otherwise the success dialog is scheduled.
run_reports(i, a, csv, md) ==
    /\ workers[i].pc = "reports"
    /\ LET c == IF a.format \in { "csv", "both" }
                THEN ReporterBlock("csv", a.detailed, csv)
                ELSE [ written |-> << >>, raised |-> FALSE, made |-> FALSE ]
           m == IF c.raised \/ a.format = "csv"
                THEN [ written |-> << >>, raised |-> FALSE, made |-> FALSE ]
                ELSE ReporterBlock("markdown", a.detailed, md)
       IN  IF c.raised \/ m.raised
           THEN /\ workers' = [ workers EXCEPT ![i].pc = "except" ]
                /\ after_queue' = after_queue
           ELSE /\ workers' = [ workers EXCEPT ![i].pc = "finally",
                                               ![i].outcome = "success" ]
                /\ after_queue' = Append(after_queue, "showinfo")
    /\ WorkerFrame

\* A call inside the try block raises, a call on a widget from log_message
\* for one.
run_raise(i) ==
    /\ workers[i].pc \in { "find", "scan", "reports" }
    /\ workers' = [ workers EXCEPT ![i].pc = "except" ]
    /\ UNCHANGED after_queue
    /\ WorkerFrame

\* gui.py 283-288: the except clause; log_message in it can raise as well,
\* and then the dialog is not scheduled.
run_except(i, scheduled) ==
    /\ workers[i].pc = "except"
    /\ workers' = [ workers EXCEPT ![i].pc = "finally",
                                   ![i].outcome = "exception" ]
    /\ after_queue' = IF scheduled THEN Append(after_queue, "showerror")
                      ELSE after_queue
    /\ WorkerFrame

\* gui.py 290-292: the finally clause, the last statement of the thread.
run_finally(i) ==
    /\ workers[i].pc = "finally"
    /\ workers' = [ workers EXCEPT ![i].pc = "done" ]
    /\ after_queue' = after_queue \o RunFinally
    /\ WorkerFrame

\* A step of thread i.
_run_analysis(i) ==
    \/ \E inp \in Inputs : run_find(i, inp)
    \/ run_add_entry(i)
    \/ run_next_file(i)
    \/ run_summary(i)
    \/ \E a \in [ format : Formats, detailed : BOOLEAN ] :
           \E csv \in BlockOutcomes(a.detailed), md \in BlockOutcomes(a.detailed) :
               run_reports(i, a, csv, md)
    \/ run_raise(i)
    \/ \E scheduled \in BOOLEAN : run_except(i, scheduled)
    \/ run_finally(i)

\* The foreground loop runs the callback scheduled first: a dialog, or
\* _finish_analysis (gui.py 294-297).
run_callback ==
    /\ after_queue # << >>
    /\ after_queue' = Tail(after_queue)
    /\ IF Head(after_queue) = "_finish_analysis"
       THEN /\ progress' = "stopped"
            /\ analyze_btn' = "normal"
       ELSE UNCHANGED << analyze_btn, progress >>
    /\ UNCHANGED << workers, cls_vars, an_vars, obs_vars, run_vars, rep_vars >>

NextGui ==
    \/ \E has_input, has_output \in BOOLEAN : analyze_logs(has_input, has_output)
    \/ \E i \in DOMAIN workers : \E inp \in Inputs : run_find(i, inp)
    \/ \E i \in DOMAIN workers : run_add_entry(i)
    \/ \E i \in DOMAIN workers : run_next_file(i)
    \/ \E i \in DOMAIN workers : run_summary(i)
    \/ \E i \in DOMAIN workers :
           \E a \in [ format : Formats, detailed : BOOLEAN ] :
               \E csv \in BlockOutcomes(a.detailed),
                  md \in BlockOutcomes(a.detailed) : run_reports(i, a, csv, md)
    \/ \E i \in DOMAIN workers : run_raise(i)
    \/ \E i \in DOMAIN workers : \E scheduled \in BOOLEAN :
           run_except(i, scheduled)
    \/ \E i \in DOMAIN workers : run_finally(i)
    \/ run_callback

SpecGui == InitGui /\ [][NextGui]_vars

\* The threads get to run and the foreground loop keeps running.
SpecGuiFair ==
    /\ SpecGui
    /\ WF_vars(\E i \in DOMAIN workers : _run_analysis(i))
    /\ WF_vars(run_callback)

(***************************************************************************)
(* Claims about the window                                                 *)
(***************************************************************************)

\* The threads in which _run_analysis has statements left to run.
ActiveWorkers == { i \in DOMAIN workers : Active(i) }

\* C19: at most one thread is inside _run_analysis at any time, and while
\* one is, the button is disabled; the LogAnalyzer of an analysis is made in
\* its thread, and a step that changes it is a step of that thread
\* taken while no other thread is inside _run_analysis: the foreground loop
\* and the other threads leave it alone.
C19_OneWorkerOneAnalyzer ==
    /\ [](Cardinality(ActiveWorkers) <= 1)
    /\ [](ActiveWorkers # { } => analyze_btn = "disabled")
    /\ [][ \A i \in DOMAIN workers :
              workers'[i].analyzer # workers[i].analyzer =>
                  /\ ActiveWorkers = { i }
                  /\ workers[i].pc \in { "find", "scan" }
                  /\ analyze_btn = "disabled"
                  /\ UNCHANGED << analyze_btn, progress, after_queue >> ]_vars

\* A second analysis was started after the first one was through, and it
\* has added an entry to its own LogAnalyzer.
C19_Witness ==
    /\ Len(workers) = 2
    /\ workers[1].pc = "done"
    /\ workers[1].analyzer # << >>
    /\ workers[1].analyzer[1].total_entries = 1
    /\ workers[2].pc = "scan"
    /\ workers[2].analyzer[1].total_entries = 1
    /\ analyze_btn = "disabled"

\* C20: a disabled button comes back: whenever the button is disabled, the
\* foreground loop later runs _finish_analysis, which stops the progress bar
\* and sets the button to normal; and at every moment a disabled button has
\* its thread still inside _run_analysis or _finish_analysis waiting in the
\* queue of the foreground loop.
C20_ButtonComesBack ==
    /\ (analyze_btn = "disabled")
           ~> (analyze_btn = "normal" /\ progress = "stopped")
    /\ [](analyze_btn = "disabled" =>
              \/ ActiveWorkers # { }
              \/ \E k \in DOMAIN after_queue : after_queue[k] = "_finish_analysis")

\* An analysis ended in the except clause, one found no files and both
\* handed the button back.
C20_Witness ==
    /\ Len(workers) = 2
    /\ workers[1].outcome = "exception"
    /\ workers[2].outcome = "no files"
    /\ workers[2].pc = "done"
    /\ after_queue = << >>
    /\ analyze_btn = "normal"
    /\ progress = "stopped"

(***************************************************************************)
(* Claims about the values the read operations hand out                    *)
(***************************************************************************)

\* What the caller of get_summary reads in the dictionary it was given: a part
\* that is an object of the analyzer shows the analyzer's present value, a
\* part that was built for the call shows what was put into it.
HeldSummary ==
    LET s == summary[1]
        shared == GetSummary(AnalyzerState).shared
    IN  [ total_entries |-> s.total_entries,
          level_counts  |-> IF "level_counts" \in shared
                            THEN level_counts ELSE s.level_counts,
          step_counts   |-> IF "step_counts" \in shared
                            THEN step_counts ELSE s.step_counts,
          steps         |-> IF "steps" \in shared
                            THEN step_keys ELSE s.steps ]

\* What the caller of get_entries_by_level or get_entries_by_step reads in the
\* list it was given: the analyzer's bucket as it is now if the list is that
\* bucket, and otherwise what the list held when it was returned.
HeldEntries ==
    LET r == returned[1]
    IN  IF ~r.shared THEN r.value
        ELSE IF r.op = "level"
             THEN DictGet(entries_by_level, r.key[1], << >>)
             ELSE DictGet(entries_by_step, r.key, << >>)

\* C21: an add_entry call changes neither the summary that an earlier
\* get_summary returned nor the record list that an earlier
\* get_entries_by_level or get_entries_by_step returned.
C21_ReturnedValuesAreSnapshots ==
    [][ (\E e \in SampleEntries : add_entry(e, "test.log")) =>
            /\ summary # << >> => HeldSummary' = HeldSummary
            /\ returned # << >> => HeldEntries' = HeldEntries ]_vars
====
